---- MODULE Spec2Model ----
(***************************************************************************)
(* Model of src/main.py: the PM2 admin bot.                                *)
(*                                                                         *)
(* The state is the monitor task (monitor_pm2), the external commands the  *)
(* command runner (run_cmd / run_cmd_sync) has in flight, and the command  *)
(* handler the dispatcher is running.  Every action is one scheduling step *)
(* of the asyncio event loop: a coroutine runs from one await to the next. *)
(***************************************************************************)
EXTENDS Integers, Sequences, FiniteSets, TLC

\* ------------------------------------------------------------ bounds
MaxRecords == 2     \* longest process list `pm2 jlist` prints
MaxCycles == 4      \* fetches of the monitor that are explored (the seed is fetch 1)

\* ------------------------------------------------------------ values
Names == {"a", "b"}
Labels == {"online", "stopped"}
None == "None"          \* Python's None: dict.get of an absent key
Missing == "Missing"    \* a record without the key that is read

\* One element of the list `pm2 jlist` prints, reduced to the fields
\* monitor_pm2 reads: p["name"] and p["pm2_env"]["status"].
Items == [name : Names, status : Labels \cup {Missing}]

RECURSIVE SeqsUpTo(_, _)
SeqsUpTo(S, n) ==
    IF n = 0 THEN {<<>>}
    ELSE LET shorter == SeqsUpTo(S, n - 1)
         IN shorter \cup {Append(s, x) : s \in {t \in shorter : Len(t) = n - 1}, x \in S}

\* The text a `pm2 jlist` run prints, by what json.loads makes of it:
\*   garbage - not JSON (also the empty text)
\*   number  - JSON, but a number and not a list (iterating it raises TypeError)
\*   list    - a JSON list of records
Outputs ==
    {[tag |-> "garbage", items |-> <<>>], [tag |-> "number", items |-> <<>>]}
      \cup {[tag |-> "list", items |-> s] : s \in SeqsUpTo(Items, MaxRecords)}

\* How the spawned shell command ends (subprocess.check_output):
\*   ok   - exit status 0
\*   fail - nonzero exit status (CalledProcessError)
\*   exc  - check_output raises something else (OSError on spawn,
\*          UnicodeDecodeError on the captured bytes)
Outcomes ==
    {[kind |-> k, out |-> o] : k \in {"ok", "fail"}, o \in Outputs}
      \cup {[kind |-> "exc", out |-> [tag |-> "garbage", items |-> <<>>]]}

EmptyList == [tag |-> "list", items |-> <<>>]

\* ------------------------------------------------------------ command runner
\* run_cmd_sync: the output on exit 0, e.output on CalledProcessError, any
\* other exception propagates.  The exit status itself is not returned.
run_cmd_sync(oc) ==
    IF oc.kind \in {"ok", "fail"}
    THEN [raised |-> FALSE, value |-> oc.out]
    ELSE [raised |-> TRUE, value |-> oc.out]

\* run_cmd: awaits run_cmd_sync on a worker thread; same result.
run_cmd(oc) == run_cmd_sync(oc)

\* json.loads
json_loads(text) ==
    IF text.tag = "garbage"
    THEN [raised |-> TRUE, value |-> EmptyList]
    ELSE [raised |-> FALSE, value |-> text]

\* get_pm2_status: json.loads of run_cmd's output; [] on any Exception.
get_pm2_status(oc) ==
    LET r == run_cmd(oc)
    IN IF r.raised THEN EmptyList
       ELSE IF json_loads(r.value).raised THEN EmptyList
       ELSE json_loads(r.value).value

\* get_pm2_status took its `except Exception` branch
Degraded(oc) ==
    LET r == run_cmd(oc)
    IN r.raised \/ json_loads(r.value).raised

\* ------------------------------------------------------------ snapshots
\* A dict name -> label, with the insertion order of its keys.
EmptyMap == [n \in {} |-> None]
EmptyDict == [keys |-> <<>>, val |-> EmptyMap]

RECURSIVE DictKeys(_)
DictKeys(items) ==
    IF items = <<>> THEN <<>>
    ELSE LET front == DictKeys(SubSeq(items, 1, Len(items) - 1))
             n == items[Len(items)].name
         IN IF \E i \in 1..Len(front) : front[i] = n THEN front ELSE Append(front, n)

DictVal(items) ==
    [n \in {items[i].name : i \in 1..Len(items)} |->
        LET last == CHOOSE i \in 1..Len(items) :
                        /\ items[i].name = n
                        /\ \A j \in 1..Len(items) : items[j].name = n => j <= i
        IN items[last].status]

\* {p["name"]: p["pm2_env"]["status"] for p in data}
\* raises when data is not iterable as records or a record lacks a key.
BuildStatus(data) ==
    IF data.tag # "list" \/ \E i \in 1..Len(data.items) : data.items[i].status = Missing
    THEN [raised |-> TRUE, dict |-> EmptyDict]
    ELSE [raised |-> FALSE,
          dict |-> [keys |-> DictKeys(data.items), val |-> DictVal(data.items)]]

\* mutant: the lookup never finds the name
Get_Absent(map, n) == None

\* dict.get(name)
Get(map, n) == IF n \in DOMAIN map THEN map[n] ELSE None

\* ------------------------------------------------------------ notifications
Event(type, n, old, new) == [type |-> type, name |-> n, old |-> old, new |-> new]

\* mutant: the labels are never compared
StatusChanged_Never(last, cur, n) == FALSE

\* the condition of the "Cambios" loop for one name of current_status
StatusChanged(last, cur, n) == Get(last, n) # cur.val[n]

\* "Cambios": one message per name of current_status whose label differs from
\* last_status.get(name), in the order of current_status.
ChangeEvents(last, cur) ==
    LET changed == SelectSeq(cur.keys, LAMBDA n : StatusChanged(last, cur, n))
    IN [i \in 1..Len(changed) |->
          Event("Transition", changed[i], Get(last, changed[i]), cur.val[changed[i]])]

\* every order in which a Python set can be iterated
Orders(S) ==
    {s \in [1..Cardinality(S) -> S] : \A i, j \in 1..Cardinality(S) : s[i] = s[j] => i = j}

\* "Eliminados": set(last_status) - set(current_status)
RemovedNames(last, cur) == DOMAIN last \ DOMAIN cur.val

\* mutant: every name of the current snapshot counts as new
AddedNames_All(last, cur) == DOMAIN cur.val

\* "Nuevos": set(current_status) - set(last_status)
AddedNames(last, cur) == DOMAIN cur.val \ DOMAIN last

NameEvents(type, order) == [i \in 1..Len(order) |-> Event(type, order[i], None, None)]

\* All send_message calls of one cycle, in order, for one iteration order of
\* the two sets.
CycleEvents(last, cur, removed, added) ==
    ChangeEvents(last, cur) \o NameEvents("Removed", removed) \o NameEvents("Added", added)

\* every snapshot a fetch can end with: the dict built from what
\* get_pm2_status returns, or the exception building it raises, and whether
\* get_pm2_status had degraded to []
Snapshots ==
    {[raised |-> BuildStatus(get_pm2_status(oc)).raised,
      dict |-> BuildStatus(get_pm2_status(oc)).dict,
      degraded |-> Degraded(oc)] : oc \in Outcomes}

\* ------------------------------------------------------------ configuration
Users == {1, 2, 3}
NoUser == 0     \* no user id: chat_id before it is assigned, no handler running

\* values of ALLOWED_USERS (the parsed environment variable)
AllowLists == {<<>>, <<1>>, <<2, 1>>}

\* mutant: the allow-list is not consulted
Allowed_Any(users, u) == TRUE

\* `user_id not in ALLOWED_USERS`, negated
Allowed(users, u) == \E i \in 1..Len(users) : users[i] = u

\* `if not ALLOWED_USERS`
AudienceEmpty(users) == users = <<>>

\* mutant: the recipient is the entry added last
Recipient_Last(users) == users[Len(users)]

\* chat_id = ALLOWED_USERS[0]
Recipient(users) == users[1]

\* the commands registered in main(), by the shape of their handler:
\*   status  - get_pm2_status, then formats the records
\*   restart, logs - need an argument, then run_cmd
\*   gitpull - needs the repository directory, then run_cmd
\*   info    - start, about, help, system: reply without a command
Kinds == {"status", "restart", "logs", "gitpull", "info"}

\* the fetch results of the monitor-loop scenario of the specification
Scenario ==
    << [n \in {"a"} |-> "online"], [n \in {"a"} |-> "online"],
       [n \in {"a"} |-> "stopped"], EmptyMap >>

\* ------------------------------------------------------------ state
VARIABLES
    ALLOWED_USERS,   \* the allow-list, fixed at import
    pc,              \* where monitor_pm2 is suspended
    chat_id,         \* monitor_pm2's recipient
    last_status,     \* monitor_pm2's previous snapshot (name -> label)
    current_status,  \* monitor_pm2's snapshot of the cycle in progress
    pending,         \* send_message calls of this cycle still to be made
    fault,           \* why monitor_pm2 ended with an exception
    cmdst,           \* per caller: the external command run_cmd waits for
    hkind,           \* the command the handler in progress serves
    huser,           \* its caller
    hres,            \* how the last handler invocation ended
    hexit,           \* how the command of the last handler invocation ended
    cycle,           \* history: fetches started by the monitor, seed included
    prev_status,     \* history: last_status as the latest diff read it
    fetched,         \* history: the last two snapshots built, oldest first
    degraded,        \* history: the latest snapshot came from a fetch that degraded to []
    sent,            \* history: the send_message calls of the latest diff
    matched          \* history: n when the n fetches so far are Scenario's first n, else -1

vars == <<ALLOWED_USERS, pc, chat_id, last_status, current_status, pending, fault,
          cmdst, hkind, huser, hres, hexit, cycle, prev_status, fetched, degraded, sent, matched>>

monVars == <<pc, chat_id, last_status, current_status, pending, fault,
             cycle, prev_status, fetched, degraded, sent, matched>>
hdlVars == <<hkind, huser, hres, hexit>>

Tasks == {"monitor", "handler"}

Init ==
    /\ ALLOWED_USERS \in AllowLists
    /\ pc = "init"
    /\ chat_id = NoUser
    /\ last_status = EmptyMap
    /\ current_status = EmptyDict
    /\ pending = <<>>
    /\ fault = "none"
    /\ cmdst = [t \in Tasks |-> "none"]
    /\ hkind = "none"
    /\ huser = NoUser
    /\ hres = "none"
    /\ hexit = "none"
    /\ cycle = 0
    /\ prev_status = EmptyMap
    /\ fetched = <<>>
    /\ degraded = FALSE
    /\ sent = <<>>
    /\ matched = 0

\* asyncio.to_thread(run_cmd_sync, cmd): the command is spawned on a worker
\* thread; it either exits at some point or never does (no timeout is passed
\* to check_output).
Spawn(t, c) == cmdst' = [cmdst EXCEPT ![t] = c]
Reap(t) == cmdst' = [cmdst EXCEPT ![t] = "none"]

\* history: the window of the last two snapshots, and the scenario's progress
Record(snapshot) ==
    /\ fetched' = IF fetched = <<>> THEN <<snapshot>>
                  ELSE <<fetched[Len(fetched)], snapshot>>
    /\ matched' = IF /\ matched = cycle - 1
                     /\ cycle <= Len(Scenario)
                     /\ snapshot = Scenario[cycle]
                  THEN cycle ELSE -1

\* ------------------------------------------------------------ monitor_pm2
\* mutant: the previous snapshot is not replaced at the end of a cycle
CopyStatus_Stale(cur) == last_status

\* mutant: the fetched snapshot is merged into the previous one
CopyStatus_Merge(cur) ==
    [n \in DOMAIN last_status \cup DOMAIN cur.val |->
        IF n \in DOMAIN cur.val THEN cur.val[n] ELSE last_status[n]]

\* last_status = current_status.copy()
CopyStatus(cur) == cur.val

\* mutant: the seed fetch is started before the audience is looked at
MonitorStart_FetchFirst ==
    /\ pc = "init"
    /\ chat_id' = IF ALLOWED_USERS = <<>> THEN NoUser ELSE ALLOWED_USERS[1]
    /\ pc' = "seed"
    /\ cycle' = 1
    /\ \E c \in {"running", "hung"} : Spawn("monitor", c)
    /\ UNCHANGED <<ALLOWED_USERS, last_status, current_status, pending, fault,
                   prev_status, fetched, degraded, sent, matched>>
    /\ UNCHANGED hdlVars

\* on_startup creates the task; it runs to the first await.
MonitorStart ==
    /\ pc = "init"
    /\ IF AudienceEmpty(ALLOWED_USERS)
       THEN /\ pc' = "not_started"
            /\ UNCHANGED <<chat_id, cmdst, cycle>>
       ELSE /\ chat_id' = Recipient(ALLOWED_USERS)
            /\ pc' = "seed"
            /\ cycle' = 1
            /\ \E c \in {"running", "hung"} : Spawn("monitor", c)
    /\ UNCHANGED <<ALLOWED_USERS, last_status, current_status, pending, fault,
                   prev_status, fetched, degraded, sent, matched>>
    /\ UNCHANGED hdlVars

\* the seed fetch returns: last_status = {...}
SeedReturn ==
    /\ pc = "seed"
    /\ cmdst["monitor"] = "running"
    /\ \E b \in Snapshots :
         IF b.raised
         THEN /\ pc' = "crashed"
              /\ fault' = "shape"
              /\ UNCHANGED <<last_status, fetched, degraded, matched>>
         ELSE /\ pc' = "sleep"
              /\ last_status' = b.dict.val
              /\ Record(b.dict.val)
              /\ degraded' = b.degraded
              /\ UNCHANGED fault
    /\ Reap("monitor")
    /\ UNCHANGED <<ALLOWED_USERS, chat_id, current_status, pending, cycle,
                   prev_status, sent>>
    /\ UNCHANGED hdlVars

\* asyncio.sleep(CHECK_INTERVAL) elapses; get_pm2_status is called.
SleepDone ==
    /\ pc = "sleep"
    /\ cycle < MaxCycles
    /\ pc' = "fetch"
    /\ cycle' = cycle + 1
    /\ \E c \in {"running", "hung"} : Spawn("monitor", c)
    /\ UNCHANGED <<ALLOWED_USERS, chat_id, last_status, current_status, pending, fault,
                   prev_status, fetched, degraded, sent, matched>>
    /\ UNCHANGED hdlVars

\* the cycle's fetch returns: current_status is built and the three loops
\* start; with no message to send the cycle ends at once.
FetchReturn ==
    /\ pc = "fetch"
    /\ cmdst["monitor"] = "running"
    /\ \E b \in Snapshots :
         IF b.raised
         THEN /\ pc' = "crashed"
              /\ fault' = "shape"
              /\ UNCHANGED <<last_status, current_status, pending, prev_status,
                             fetched, degraded, sent, matched>>
         ELSE \E removed \in Orders(RemovedNames(last_status, b.dict)),
                 added \in Orders(AddedNames(last_status, b.dict)) :
                LET evs == CycleEvents(last_status, b.dict, removed, added)
                IN /\ current_status' = b.dict
                   /\ prev_status' = last_status
                   /\ Record(b.dict.val)
                   /\ degraded' = b.degraded
                   /\ pending' = evs
                   /\ sent' = <<>>
                   /\ UNCHANGED fault
                   /\ IF evs = <<>>
                      THEN /\ last_status' = CopyStatus(b.dict)
                           /\ pc' = "sleep"
                      ELSE /\ pc' = "notify"
                           /\ UNCHANGED last_status
    /\ Reap("monitor")
    /\ UNCHANGED <<ALLOWED_USERS, chat_id, cycle>>
    /\ UNCHANGED hdlVars

\* one `await application.bot.send_message(...)` ends, delivered or raising;
\* after the last one: last_status = current_status.copy()
Deliver ==
    /\ pc = "notify"
    /\ \E ok \in BOOLEAN :
         /\ sent' = Append(sent, [cycle |-> cycle, ev |-> Head(pending),
                                  to |-> chat_id, ok |-> ok])
         /\ IF ok
            THEN /\ pending' = Tail(pending)
                 /\ UNCHANGED fault
                 /\ IF Tail(pending) = <<>>
                    THEN /\ last_status' = CopyStatus(current_status)
                         /\ pc' = "sleep"
                    ELSE UNCHANGED <<last_status, pc>>
            ELSE /\ pc' = "crashed"
                 /\ fault' = "send"
                 /\ UNCHANGED <<pending, last_status>>
    /\ UNCHANGED <<ALLOWED_USERS, chat_id, current_status, cmdst, cycle,
                   prev_status, fetched, degraded, matched>>
    /\ UNCHANGED hdlVars

\* task.cancel(): CancelledError is raised at the await the task is suspended
\* in.  Inside the try (sleep, fetch, send_message) it is caught and the
\* coroutine returns; at the seed fetch it propagates.
Cancel ==
    /\ pc \in {"seed", "sleep", "fetch", "notify"}
    /\ pc' = IF pc = "seed" THEN "cancelled" ELSE "stopped"
    /\ Reap("monitor")
    /\ UNCHANGED <<ALLOWED_USERS, chat_id, last_status, current_status, pending, fault,
                   cycle, prev_status, fetched, degraded, sent, matched>>
    /\ UNCHANGED hdlVars

\* ------------------------------------------------------------ handlers
\* The dispatcher calls the handler of one update: the `restricted` wrapper,
\* then the body up to its first await of run_cmd.  main() builds the
\* application without concurrent updates, so the dispatcher awaits one
\* handler before it takes the next update; polling starts after on_startup.
Start(u, k) ==
    /\ hkind' = k
    /\ huser' = u
    /\ hres' = "none"
    /\ hexit' = "none"
    /\ \E c \in {"running", "hung"} : Spawn("handler", c)

End(res) ==
    /\ hres' = res
    /\ hexit' = "none"
    /\ UNCHANGED <<hkind, huser, cmdst>>

HandlerCall ==
    /\ pc # "init"
    /\ hkind = "none"
    /\ \E u \in Users, k \in Kinds :
         IF ~Allowed(ALLOWED_USERS, u) THEN End("denied")
         ELSE IF k = "info" THEN End("replied")
         ELSE IF k \in {"restart", "logs"}
         THEN \E hasArgs \in BOOLEAN : IF hasArgs THEN Start(u, k) ELSE End("usage")
         ELSE IF k = "gitpull"
         THEN \E isDir \in BOOLEAN : IF isDir THEN Start(u, k) ELSE End("nodir")
         ELSE Start(u, k)
    /\ UNCHANGED ALLOWED_USERS
    /\ UNCHANGED monVars

\* what the body of `status` does with the data: with no data it replies
\* that there is none; else it reads the fields of every record, which raises
\* when a record lacks a key or the data cannot be iterated as records.
StatusReply(data) ==
    IF data.tag = "list" /\ data.items = <<>> THEN "replied"
    ELSE IF BuildStatus(data).raised THEN "shape_fault"
    ELSE "replied"

\* what restart, logs and gitpull do with run_cmd's result: reply with the
\* text, or let run_cmd's exception propagate.
CommandReply(r) == IF r.raised THEN "runner_fault" ELSE "replied"

\* every way a handler can end once its command has exited, with the way
\* the command ended
Replies(k) ==
    IF k = "status"
    THEN {[res |-> StatusReply(get_pm2_status(oc)), exit |-> oc.kind] : oc \in Outcomes}
    ELSE {[res |-> CommandReply(run_cmd(oc)), exit |-> oc.kind] : oc \in Outcomes}

\* mutant: the snapshot is shared state and the handler stores what it fetched
HandlerReturn_SharedSnapshot ==
    /\ hkind # "none"
    /\ cmdst["handler"] = "running"
    /\ \E r \in Replies(hkind) : hres' = r.res /\ hexit' = r.exit
    /\ \E b \in Snapshots : last_status' = b.dict.val
    /\ hkind' = "none"
    /\ huser' = NoUser
    /\ Reap("handler")
    /\ UNCHANGED <<ALLOWED_USERS, pc, chat_id, current_status, pending, fault,
                   cycle, prev_status, fetched, degraded, sent, matched>>

\* the handler's command exits and the body runs to its end.
HandlerReturn ==
    /\ hkind # "none"
    /\ cmdst["handler"] = "running"
    /\ \E r \in Replies(hkind) : hres' = r.res /\ hexit' = r.exit
    /\ hkind' = "none"
    /\ huser' = NoUser
    /\ Reap("handler")
    /\ UNCHANGED ALLOWED_USERS
    /\ UNCHANGED monVars

Next ==
    \/ MonitorStart
    \/ SeedReturn
    \/ SleepDone
    \/ FetchReturn
    \/ Deliver
    \/ Cancel
    \/ HandlerCall
    \/ HandlerReturn

Spec == Init /\ [][Next]_vars

\* the event loop runs every coroutine that is ready: a timer that elapsed, a
\* command that exited, a send_message that ended.  Cancellation and incoming
\* updates come from outside and are not forced.
FairSpec ==
    /\ Spec
    /\ WF_vars(MonitorStart)
    /\ WF_vars(SeedReturn)
    /\ WF_vars(SleepDone)
    /\ WF_vars(FetchReturn)
    /\ WF_vars(Deliver)
    /\ WF_vars(HandlerReturn)

\* The runs in which the loop is not cancelled, every command of the monitor
\* exits, every fetch gives records that can be read and every send_message
\* is delivered.
Returns == cmdst'["monitor"] # "hung"
Succeeds == pc' # "crashed"

\* a step of monitor_pm2 in such a run; at most one of these is enabled at a
\* time, the one pc names
MonitorStep ==
    \/ MonitorStart /\ Returns
    \/ SeedReturn /\ Succeeds
    \/ SleepDone /\ Returns
    \/ FetchReturn /\ Succeeds
    \/ Deliver /\ Succeeds

LiveNext ==
    \/ MonitorStep
    \/ HandlerCall
    \/ HandlerReturn

\* the event loop resumes monitor_pm2 whenever what it awaits is ready
LiveSpec ==
    /\ Init
    /\ [][LiveNext]_vars
    /\ WF_vars(MonitorStep)

\* ------------------------------------------------------------ properties
Count(seq, n) == Cardinality({i \in 1..Len(seq) : seq[i].name = n})

SentEvents == [i \in 1..Len(sent) |-> sent[i].ev]

\* the messages of the latest diff, sent or not: a send_message that raised
\* leaves its message at the head of pending
CycleMessages ==
    IF sent # <<>> /\ ~sent[Len(sent)].ok
    THEN SubSeq(SentEvents, 1, Len(sent) - 1) \o pending
    ELSE SentEvents \o pending

Prev == prev_status
Cur == current_status.val

\* C1: the messages of one cycle partition the changed names: a name in
\* exactly one of the two snapshots has exactly one message, Added or Removed;
\* a name in both with different labels has exactly one Transition; any other
\* name has none.
C1_DiffIsPartition ==
    \A n \in Names :
      LET mine == SelectSeq(CycleMessages, LAMBDA e : e.name = n)
      IN IF n \in DOMAIN Prev /\ n \in DOMAIN Cur
         THEN IF Prev[n] # Cur[n]
              THEN Len(mine) = 1 /\ mine[1].type = "Transition"
              ELSE mine = <<>>
         ELSE IF n \in DOMAIN Cur
         THEN Len(mine) = 1 /\ mine[1].type = "Added"
         ELSE IF n \in DOMAIN Prev
         THEN Len(mine) = 1 /\ mine[1].type = "Removed"
         ELSE mine = <<>>

\* C2: when a send_message of a cycle has failed and the monitor is no longer
\* sending, every message of that cycle has been attempted exactly once.
C2_FailureKeepsOthers ==
    (pc # "notify" /\ \E i \in 1..Len(sent) : ~sent[i].ok)
      => \A j \in 1..Len(CycleMessages) :
           Cardinality({i \in 1..Len(sent) : sent[i].ev = CycleMessages[j]}) = 1

\* C3: a running loop ends only by cancellation: it never leaves its cycle
\* for any state but Stopped.
C3_EndsOnlyByCancel ==
    [][(pc \in {"sleep", "fetch", "notify"} /\ pc' \notin {"sleep", "fetch", "notify"})
         => pc' = "stopped"]_vars

\* C4: a name absent from the previous snapshot and present in the current
\* one has exactly one message in the cycle: Added, and no Transition.
C4_NewNameAddedOnce ==
    \A n \in DOMAIN Cur \ DOMAIN Prev :
      /\ Count(CycleMessages, n) = 1
      /\ \A i \in 1..Len(CycleMessages) :
           CycleMessages[i].name = n => CycleMessages[i].type = "Added"

\* C5: no fault from the shape of the process manager's output gets past
\* get_pm2_status, into the monitor or into a handler.
C5_NoFaultPastSource == fault # "shape" /\ hres # "shape_fault"

\* C6: with an empty allow-list the monitor never gets past its start: no
\* command is spawned for it, no snapshot is built and no message is sent.
C6_EmptyAudienceNeverStarts ==
    ALLOWED_USERS = <<>>
      => /\ pc \in {"init", "not_started"}
         /\ cycle = 0
         /\ cmdst["monitor"] = "none"
         /\ fetched = <<>>
         /\ sent = <<>>
         /\ pending = <<>>

\* the monitor has returned at once, and a caller has been turned away since
C6_Witness == ALLOWED_USERS = <<>> /\ pc = "not_started" /\ hres = "denied"

Transition_a == Event("Transition", "a", "online", "stopped")
Removed_a == Event("Removed", "a", None, None)

\* C7: messages are sent in a cycle only if its snapshot differs from the
\* snapshot fetched before it, and they carry that cycle's number, in order;
\* the fetches {a:online}, {a:online}, {a:stopped}, {} give no message in
\* cycles 1 and 2, one Transition of a in cycle 3 and one Removed a in cycle 4.
C7_DeliveriesFollowChanges ==
    /\ sent # <<>> => Len(fetched) = 2 /\ fetched[1] # fetched[2]
    /\ \A i \in 1..Len(sent) :
         /\ sent[i].cycle >= 2
         /\ sent[i].cycle <= cycle
         /\ \A j \in 1..i : sent[j].cycle <= sent[i].cycle
    /\ matched \in {1, 2} => sent = <<>> /\ pending = <<>>
    /\ matched = 3
         => /\ CycleMessages = <<Transition_a>>
            /\ Len(sent) <= 1
            /\ \A i \in 1..Len(sent) : sent[i].cycle = 3
            /\ pending = <<>> => SentEvents = <<Transition_a>>
    /\ matched = 4
         => /\ CycleMessages = <<Removed_a>>
            /\ Len(sent) <= 1
            /\ \A i \in 1..Len(sent) : sent[i].cycle = 4
            /\ pending = <<>> => SentEvents = <<Removed_a>>

\* the scenario's fourth cycle has ended with its one message sent
C7_Witness ==
    /\ matched = 4
    /\ pc = "sleep"
    /\ sent = <<[cycle |-> 4, ev |-> Removed_a, to |-> chat_id, ok |-> TRUE]>>

\* C8: a cycle whose snapshot equals the stored previous snapshot sends no
\* message.
C8_SameSnapshotSilent ==
    (Len(fetched) = 2 /\ Prev = Cur) => (sent = <<>> /\ pending = <<>>)

\* a cycle has ended that fetched the same two processes as the one before
C8_Witness ==
    /\ Len(fetched) = 2
    /\ Prev = Cur
    /\ DOMAIN Cur = Names
    /\ pc = "sleep"
    /\ cycle >= 2

\* C9: cancellation takes effect between cycles only: a cycle that has begun
\* its fetch is not stopped before it ends.
C9_CancelBetweenCycles ==
    [][(pc \in {"fetch", "notify"}) => (pc' # "stopped")]_vars

\* C10: every invocation of the command runner returns to its caller.
C10_RunnerReturns ==
    \A t \in Tasks : (cmdst[t] # "none") ~> (cmdst[t] = "none")

\* what the caller of run_cmd holds after a command that ended the way `kind`
\* says and printed `out`
Received(kind, out) == run_cmd([kind |-> kind, out |-> out])

\* C11: a command that failed never raises into the caller of the command
\* runner, and what the caller receives differs from what it receives after
\* a successful run (it carries a success flag that is false).
C11_FailureIsData ==
    (hexit \in {"fail", "exc"} /\ hres # "shape_fault")
      => /\ hres # "runner_fault"
         /\ \A o \in Outputs :
              /\ ~Received(hexit, o).raised
              /\ Received(hexit, o) # Received("ok", o)

\* some task is waiting for an external command that does not return
CommandHung == \E t \in Tasks : cmdst[t] = "hung"

\* C12: while an external command started by one task is slow or hung, the
\* monitor loop can still take its next step (timer, fetch result, send) and
\* another handler invocation can still start and complete.
C12_HungCommandBlocksNothing ==
    CommandHung =>
      /\ (pc = "sleep" /\ cycle < MaxCycles) => ENABLED SleepDone
      /\ (pc = "fetch" /\ cmdst["monitor"] = "running") => ENABLED FetchReturn
      /\ pc = "notify" => ENABLED Deliver
      /\ (hkind # "none" /\ cmdst["handler"] = "running") => ENABLED HandlerReturn
      /\ (pc # "init" /\ cmdst["handler"] # "running") => ENABLED HandlerCall

\* the messages of the latest diff that send_message delivered
Delivered == SelectSeq(sent, LAMBDA m : m.ok)

\* C13: a cycle whose fetch degraded to empty while the previous snapshot
\* held the names P delivers one Removed message per name of P and nothing
\* else, and leaves the previous snapshot empty.
C13_DegradedFetchRemovesAll ==
    (degraded /\ Len(fetched) = 2 /\ pc # "notify")
      => /\ Cur = EmptyMap
         /\ \A n \in DOMAIN Prev :
              \E i \in 1..Len(Delivered) :
                 /\ Delivered[i].ev.name = n
                 /\ Delivered[i].ev.type = "Removed"
         /\ Len(Delivered) = Cardinality(DOMAIN Prev)
         /\ last_status = EmptyMap

\* C14: a handler body runs, and with it an external command or a status
\* fetch, only for a caller whose id is in the allow-list: a call by anyone
\* else ends with the refusal and starts nothing.
C14_BodyOnlyForAllowed ==
    /\ (hkind # "none" \/ cmdst["handler"] # "none")
         => \E i \in 1..Len(ALLOWED_USERS) : ALLOWED_USERS[i] = huser
    /\ ALLOWED_USERS = <<>> => (hres \in {"none", "denied"} /\ hexit = "none")
    /\ hres = "denied" => (hkind = "none" /\ cmdst["handler"] = "none" /\ hexit = "none")

C14_Witness ==
    /\ ALLOWED_USERS = <<2, 1>>
    /\ hres = "denied"
    /\ cmdst["handler"] = "none"

\* C15: once a cycle has run to its end the previous snapshot is exactly the
\* snapshot that cycle fetched, names absent from it dropped; until then it is
\* the snapshot of the cycle before, and every diff reads the snapshot
\* fetched immediately before its own.
C15_SnapshotReplaced ==
    /\ (fetched # <<>> /\ pending = <<>>) => last_status = fetched[Len(fetched)]
    /\ Len(fetched) = 2 =>
         /\ Prev = fetched[1]
         /\ Cur = fetched[2]
         /\ pending # <<>> => last_status = fetched[1]

C15_Witness ==
    /\ pc = "sleep"
    /\ Len(fetched) = 2
    /\ DOMAIN fetched[1] = {"a", "b"}
    /\ DOMAIN fetched[2] = {"b"}
    /\ last_status = fetched[2]
    /\ Len(Delivered) > 0

\* C16 (as amended): the previous snapshot is seeded exactly once, before the
\* first cycle, from the first fetch whatever it returned; nothing is sent for
\* the seeding; and a name of the snapshot a diff starts from is never
\* reported as Added by that diff.
C16_SeedFromFirstFetch ==
    /\ pc = "seed" => (cycle = 1 /\ fetched = <<>>)
    /\ cycle = 1 =>
         /\ sent = <<>> /\ pending = <<>>
         /\ fetched # <<>> => (Len(fetched) = 1 /\ last_status = fetched[1])
    /\ Len(fetched) = 2 =>
         \A n \in DOMAIN fetched[1] :
            \A i \in 1..Len(CycleMessages) :
               ~(CycleMessages[i].type = "Added" /\ CycleMessages[i].name = n)

\* C16: the previous snapshot is seeded exactly once, at startup, from the
\* first successful fetch, nothing is sent for the seeding, and a process
\* present at the start is never reported as Added unless it was first
\* observed missing.
C16_SeedFromSuccessfulFetch ==
    /\ C16_SeedFromFirstFetch
    /\ Len(fetched) = 1 => ~degraded

C16_Witness ==
    /\ cycle = 2
    /\ pc = "sleep"
    /\ Len(fetched) = 2
    /\ DOMAIN fetched[1] = {"a"}
    /\ fetched[2] = [n \in {"a", "b"} |-> fetched[1]["a"]]
    /\ \E i \in 1..Len(Delivered) :
          Delivered[i].ev.type = "Added" /\ Delivered[i].ev.name = "b"

\* a step of a handler invocation: its call or its return
HandlerStep == hdlVars' # hdlVars \/ cmdst'["handler"] # cmdst["handler"]

\* C17: no step of a handler invocation changes the monitor's previous
\* snapshot, the snapshot of the cycle in progress or the messages still to
\* be sent, and the messages of a cycle are the diff of the two snapshots
\* held when its fetch returned, whatever handlers ran in between.
C17_HandlersLeaveSnapshots ==
    /\ [][HandlerStep => UNCHANGED <<last_status, current_status, pending, sent>>]_vars
    /\ [](Len(fetched) = 2 =>
            /\ last_status \in {fetched[1], fetched[2]}
            /\ \E removed \in Orders(RemovedNames(fetched[1], current_status)),
                  added \in Orders(AddedNames(fetched[1], current_status)) :
                 CycleMessages = CycleEvents(fetched[1], current_status, removed, added))

C17_Witness ==
    /\ pc = "notify"
    /\ sent # <<>>
    /\ pending # <<>>
    /\ hkind = "status"
    /\ cmdst["handler"] = "running"

\* C19: every message the monitor loop sends goes to the first entry of the
\* allow-list, the recipient it read when it started; none goes to another
\* allowed user.
C19_OneRecipient ==
    /\ cycle >= 1 => chat_id = ALLOWED_USERS[1]
    /\ \A i \in 1..Len(sent) : sent[i].to = ALLOWED_USERS[1]

C19_Witness ==
    /\ ALLOWED_USERS = <<2, 1>>
    /\ Len(Delivered) >= 2
    /\ \A i \in 1..Len(Delivered) : Delivered[i].to = 2

\* the two snapshots of the latest diff disagree about name n: its label
\* differs, or it is in only one of them
Changed(n) == Len(fetched) = 2 /\ Get(fetched[1], n) # Get(fetched[2], n)

\* a message naming n was delivered in the latest cycle
Notified(n) == \E i \in 1..Len(Delivered) : Delivered[i].ev.name = n

\* the names the latest diff found changed and no delivered message names yet
Owed == {n \in Names : Changed(n) /\ ~Notified(n)}

\* C18: with a non-empty audience, no cancellation and every fetch and send
\* succeeding, the loop keeps polling: every cycle up to the last one explored
\* comes to its end; and a cycle has come to its end only when every change
\* of a process between its two polls has a delivered message that names the
\* process.
C18_ChangeIsNotified ==
    /\ [](pc = "sleep" => Owed = {})
    /\ (pc = "seed") ~> (cycle = MaxCycles /\ pc = "sleep")

C18_Witness ==
    /\ cycle >= 3
    /\ pc = "sleep"
    /\ Changed("a")
    /\ "a" \in DOMAIN fetched[1] \cap DOMAIN fetched[2]
    /\ Notified("a")

====
